---- MODULE Spec2Model ----
(***************************************************************************)
(* lzlib4: block framing on top of the LZ4 HC streaming codec.             *)
(*                                                                         *)
(* The handle (class lzlib4, member strm) is the record strm below.  Every *)
(* public method is one action; the loops of compress, decompress and      *)
(* decompress_partial are recursive operators that run the loop body until *)
(* the method returns.  Bytes are numbers 0..255, the block header is the  *)
(* 12 bytes the code memcpy's, and size_t arithmetic wraps modulo SizeMod. *)
(*                                                                         *)
(* The codec (lz4hc) and the CRC table are outside the repository; they    *)
(* are modelled by a run-length codec that carries a digest of the codec   *)
(* history in its first byte, and by a multiplicative digest that keeps    *)
(* the shape of lzlib4::crc32 (all-ones start, fold, complement).          *)
(***************************************************************************)
EXTENDS Integers, Sequences, FiniteSets, TLC

\* ------------------------------------------------------------------ bounds
MaxBS == 2
MaxPush == 3
MaxCalls == 2
MaxByte == 1
SizeBits == 16
MaxIters == 24

SizeMod == 2 ^ SizeBits

\* ------------------------------------------------------- program constants
LZLIB4_MAX_BLOCK_SIZE == 4
HeaderSize == 12
CrcMod == 65521

LZLIB4_NO_FLUSH == 0
LZLIB4_SYNC_FLUSH == 2
LZLIB4_FINISH == 4

LZLIB4_INPUT_NOSPLIT == "LZLIB4_INPUT_NOSPLIT"
LZLIB4_INPUT_SPLIT == "LZLIB4_INPUT_SPLIT"

LZLIB4_RC_OK == "OK"
LZLIB4_RC_BLOCK_SIZE_ERROR == "LZLIB4_RC_BLOCK_SIZE_ERROR"
LZLIB4_RC_BUFFER_ERROR == "LZLIB4_RC_BUFFER_ERROR"
LZLIB4_RC_BLOCK_DAMAGED == "LZLIB4_RC_BLOCK_DAMAGED"
LZLIB4_RC_COMPRESSION_ERROR == "LZLIB4_RC_COMPRESSION_ERROR"

\* ------------------------------------------------------------ small helpers
Min(a, b) == IF a <= b THEN a ELSE b

\* size_t subtraction: wraps below zero
SubSize(a, b) == ((a % SizeMod) - (b % SizeMod) + SizeMod) % SizeMod

\* the first n elements of q / q without its first n elements
Take(q, n) == SubSeq(q, 1, Min(n, Len(q)))
Drop(q, n) == SubSeq(q, Min(n, Len(q)) + 1, Len(q))

\* n bytes at next_in: what the caller supplied, then whatever lies behind
\* it in memory (beyond), then zero pages
MemRead(mem, n) == [i \in 1..n |-> IF i <= Len(mem) THEN mem[i] ELSE 0]

RECURSIVE Flatten(_)
Flatten(qq) == IF qq = <<>> THEN <<>> ELSE Head(qq) \o Flatten(Tail(qq))

RECURSIVE SumLen(_)
SumLen(qq) == IF qq = <<>> THEN 0 ELSE Len(Head(qq)) + SumLen(Tail(qq))

\* the caller's data: byte k of source v, with runs of two equal bytes
DataByte(v, k) == ((k \div 2) + v) % (MaxByte + 1)

\* n bytes of source v from offset from
DataBytes(v, from, n) == [i \in 1..n |-> DataByte(v, from + i)]

\* ------------------------------------------------------------------- crc32
\* lzlib4::crc32: register starts all ones, one table step per byte, result
\* complemented.  The table step is replaced by a multiplicative step that
\* is injective on the buffers of the model.
crc_step(c, b) == (c * 31 + b + 7) % CrcMod

RECURSIVE crc_fold(_, _)
crc_fold(c, buf) == IF buf = <<>> THEN c ELSE crc_fold(crc_step(c, Head(buf)), Tail(buf))

crc32(buf) == (CrcMod - 1) - crc_fold(CrcMod - 1, buf)

\* ------------------------------------------------------------ block header
\* uint32_t in native (little endian) byte order
EncodeU32(v) == << v % 256, (v \div 256) % 256, (v \div 65536) % 256, (v \div 16777216) % 256 >>

\* values with the top bit set do not fit the checker's integers: they
\* saturate, which keeps every comparison the code makes with them
DecodeU32(b) == IF b[4] >= 128 THEN 2147483647
                ELSE b[1] + 256 * b[2] + 65536 * b[3] + 16777216 * b[4]

EncodeHeader(h) == EncodeU32(h.compressed_size) \o EncodeU32(h.uncompressed_size) \o EncodeU32(h.crc)

DecodeHeader(b) == [compressed_size |-> DecodeU32(SubSeq(b, 1, 4)),
                    uncompressed_size |-> DecodeU32(SubSeq(b, 5, 8)),
                    crc |-> DecodeU32(SubSeq(b, 9, 12))]

\* ------------------------------------------------------------------- codec
LZ4_COMPRESSBOUND(n) == n + (n \div 255) + 16

\* digest of the blocks the codec state has seen (its dictionary)
HistTag(hist) == (Len(hist) + SumLen(hist)) % 256

RECURSIVE RunLen(_, _)
RunLen(q, v) == IF q = <<>> \/ Head(q) # v THEN 0 ELSE 1 + RunLen(Tail(q), v)

RECURSIVE RleEncode(_)
RleEncode(q) == IF q = <<>> THEN <<>>
                ELSE LET n == RunLen(q, Head(q))
                     IN  << n, Head(q) >> \o RleEncode(Drop(q, n))

RECURSIVE RleDecode(_)
RleDecode(p) == IF p = <<>> THEN <<>>
                ELSE [i \in 1..p[1] |-> p[2]] \o RleDecode(Drop(p, 2))

RECURSIVE RleValid(_)
RleValid(p) == \/ p = <<>>
               \/ Len(p) >= 2 /\ p[1] >= 1 /\ RleValid(Drop(p, 2))

\* compressed bytes; the empty sequence is the codec's return value 0
LZ4_compress_HC_continue(hist, src, dstCapacity) ==
    LET p == << HistTag(hist) >> \o RleEncode(src)
    IN  IF Len(p) <= dstCapacity THEN p ELSE <<>>

\* [ret, bytes]: ret < 0 on failure, else the decoded length.  A block coded
\* against another dictionary than the decoder's decodes to other bytes.
LZ4_decompress_safe_continue(hist, src, dstCapacity) ==
    IF src = <<>> \/ ~RleValid(Tail(src)) THEN [ret |-> -1, bytes |-> <<>>]
    ELSE LET d == RleDecode(Tail(src))
             g == IF src[1] = HistTag(hist) THEN d
                  ELSE [i \in 1..Len(d) |-> (d[i] + 1) % 256]
         IN  IF Len(d) > dstCapacity THEN [ret |-> -1, bytes |-> <<>>]
             ELSE [ret |-> Len(d), bytes |-> g]

\* ------------------------------------------------------------------- state
VARIABLES strm, heap, phase, seed, calls, S, pushes, cout, cin, dpos, dout, call

vars == << strm, heap, phase, seed, calls, S, pushes, cout, cin, dpos, dout, call >>

\* ---------------------------------------------------------------- handles
\* lzlib4::lzlib4(block_size, block_mode, comp_level) for the compression
\* fields and lzlib4::lzlib4() for the decompression fields.  A compression
\* session and the decompression session that reads its output are kept
\* side by side in one record.
NewHandle(block_size, block_mode) ==
    [compress_in_size |-> block_size,
     compress_in_buffer |-> <<>>,
     compress_in_index |-> 0,
     compress_out_size |-> LZ4_COMPRESSBOUND(block_size) + HeaderSize,
     compress_block_mode |-> block_mode,
     strm_lz4 |-> <<>>,
     strm_lz4_decode |-> <<>>,
     decompress_in_buffer |-> <<>>,
     decompress_in_index |-> 0,
     decompress_in_size |-> 0,
     decompress_in_size_real |-> 0,
     decompress_out_buffer |-> <<>>,
     decompress_out_size |-> 0,
     decompress_out_size_real |-> 0,
     decompress_tmp_buffer |-> <<>>,
     decompress_tmp_size |-> 0,
     decompress_tmp_index |-> 0,
     decompress_tmp_size_real |-> 0,
     partial_block |-> FALSE]

\* what each owned pointer refers to: "null", "live" (allocated) or
\* "dangling" (freed, pointer not cleared); twice = pointers freed while
\* dangling
NewHeap ==
    [strm_lz4 |-> "live", strm_lz4_decode |-> "live",
     compress_in_buffer |-> "live", compress_out_buffer |-> "live",
     decompress_in_buffer |-> "null", decompress_out_buffer |-> "null",
     decompress_tmp_buffer |-> "null", twice |-> {}, closes |-> 0]

\* ------------------------------------------------------------------- loops
\* one more iteration of a method's while loop has run
Tick(c) == [c EXCEPT !.iters = @ + 1]

\* a loop still running after MaxIters iterations is taken not to return
Hang(c) == [c EXCEPT !.rc = "hang", !.site = "hang"]

\* ---------------------------------------------------------------- compress
\* line 98 with the two block modes mixed up
NoSplitTooLargeWrongMode(s, avail_in) ==
    s.compress_block_mode = LZLIB4_INPUT_SPLIT /\ avail_in > s.compress_in_size

\* line 98: the push does not fit a block at all
NoSplitTooLarge(s, avail_in) ==
    s.compress_block_mode = LZLIB4_INPUT_NOSPLIT /\ avail_in > s.compress_in_size

\* line 114 comparing with the block size instead of the space left
NoSplitMustCloseWholeBlock(s, avail_in, space_left) ==
    s.compress_block_mode = LZLIB4_INPUT_NOSPLIT /\ avail_in > s.compress_in_size

\* line 114: the push does not fit what is left of the pending block
NoSplitMustClose(s, avail_in, space_left) ==
    s.compress_block_mode = LZLIB4_INPUT_NOSPLIT /\ avail_in > space_left

\* lines 138-139: the block is full, or the input is exhausted under a flush
BlockReady(s, avail_in, flush_mode) ==
    \/ s.compress_in_index = s.compress_in_size
    \/ avail_in = 0 /\ flush_mode > 0

\* line 160 forgetting the header
EmitTooBigPayloadOnly(compressed, avail_out) == compressed > avail_out

\* line 160
EmitTooBig(compressed, avail_out) == (compressed + HeaderSize) > avail_out

\* lines 157-188 declaring the block size instead of the fill index
EmitBlockFullSize(c, block, compressed) ==
    IF compressed = <<>>
    THEN [c EXCEPT !.rc = LZLIB4_RC_COMPRESSION_ERROR, !.site = "codec"]
    ELSE IF EmitTooBig(Len(compressed), c.avail_out)
    THEN [c EXCEPT !.s.strm_lz4 = Append(@, block), !.codec_calls = @ + 1,
                   !.rc = LZLIB4_RC_BUFFER_ERROR, !.site = "out_small"]
    ELSE [c EXCEPT !.s.strm_lz4 = Append(@, block),
                   !.s.compress_in_index = 0,
                   !.s.compress_in_buffer = <<>>,
                   !.codec_calls = @ + 1,
                   !.out = @ \o EncodeHeader([compressed_size |-> Len(compressed),
                                              uncompressed_size |-> c.s.compress_in_size,
                                              crc |-> crc32(block)]) \o compressed,
                   !.blocks = Append(@, block),
                   !.avail_out = @ - (HeaderSize + Len(compressed))]

\* lines 157-188 with compressed the codec's output: header and payload go
\* to the output cursor and the fill index is reset
EmitBlock(c, block, compressed) ==
    IF compressed = <<>>
    THEN [c EXCEPT !.rc = LZLIB4_RC_COMPRESSION_ERROR, !.site = "codec"]
    ELSE IF EmitTooBig(Len(compressed), c.avail_out)
    THEN [c EXCEPT !.s.strm_lz4 = Append(@, block), !.codec_calls = @ + 1,
                   !.rc = LZLIB4_RC_BUFFER_ERROR, !.site = "out_small"]
    ELSE [c EXCEPT !.s.strm_lz4 = Append(@, block),
                   !.s.compress_in_index = 0,
                   !.s.compress_in_buffer = <<>>,
                   !.codec_calls = @ + 1,
                   !.out = @ \o EncodeHeader([compressed_size |-> Len(compressed),
                                              uncompressed_size |-> c.s.compress_in_index,
                                              crc |-> crc32(block)]) \o compressed,
                   !.blocks = Append(@, block),
                   !.avail_out = @ - (HeaderSize + Len(compressed))]

\* lines 147-188: codec call, header and payload to the output cursor
CompressBlock(c) ==
    EmitBlock(c, c.s.compress_in_buffer,
              LZ4_compress_HC_continue(c.s.strm_lz4, c.s.compress_in_buffer, c.s.compress_out_size))

\* lines 122-145 after the copy: index check, block ready, flush consumed
AfterRead(c, early) ==
    IF c.s.compress_in_index > c.s.compress_in_size
    THEN [c EXCEPT !.rc = LZLIB4_RC_BUFFER_ERROR, !.site = "index"]
    ELSE IF BlockReady(c.s, c.avail_in, c.flush_mode)
    THEN CompressBlock([c EXCEPT !.flush_mode = LZLIB4_NO_FLUSH])
    ELSE IF early THEN CompressBlock(c)
    ELSE c

\* a copy that leaves the input cursor where it was
ReadInCursorKept(c, to_read) ==
    [c EXCEPT !.s.compress_in_buffer = @ \o Take(c.inp, to_read),
              !.s.compress_in_index = @ + to_read]

\* lines 123-130: to_read bytes move from next_in to the block buffer
ReadIn(c, to_read) ==
    [c EXCEPT !.s.compress_in_buffer = @ \o Take(c.inp, to_read),
              !.s.compress_in_index = @ + to_read,
              !.inp = Drop(@, to_read),
              !.avail_in = @ - to_read]

\* lines 105-190: one iteration of the while loop
CompressIter(c) ==
    LET space_left == c.s.compress_in_size - c.s.compress_in_index
        early == NoSplitMustClose(c.s, c.avail_in, space_left)
    IN  AfterRead(ReadIn(c, IF early THEN 0 ELSE Min(space_left, c.avail_in)), early)

\* lines 105, 192-197: the loop, then the reset of a finished stream
RECURSIVE CompressLoop(_)
CompressLoop(c) ==
    IF c.rc # "run" THEN c
    ELSE IF c.iters >= MaxIters THEN Hang(c)
    ELSE IF c.avail_in # 0 \/ c.flush_mode # 0 THEN CompressLoop(Tick(CompressIter(c)))
    ELSE IF c.flush_mode = LZLIB4_FINISH
    THEN [c EXCEPT !.s.strm_lz4 = <<>>, !.resets = @ + 1, !.rc = LZLIB4_RC_OK, !.site = "end"]
    ELSE [c EXCEPT !.rc = LZLIB4_RC_OK, !.site = "end"]

\* lzlib4::compress(flush_mode) with next_in/avail_in = inp and avail_out
compress(s, inp, flush_mode, avail_out) ==
    LET c0 == [s |-> s, inp |-> inp, avail_in |-> Len(inp), flush_mode |-> flush_mode,
               out |-> <<>>, blocks |-> <<>>, avail_out |-> avail_out,
               codec_calls |-> 0, resets |-> 0, iters |-> 0, rc |-> "run", site |-> ""]
    IN  IF NoSplitTooLarge(s, Len(inp))
        THEN [c0 EXCEPT !.rc = LZLIB4_RC_BLOCK_SIZE_ERROR, !.site = "too_large"]
        ELSE CompressLoop(c0)

\* -------------------------------------------------------------- decompress
NoHeader == [compressed_size |-> 0, uncompressed_size |-> 0, crc |-> 0]

\* line 214
HeaderZero(h) == h.compressed_size = 0 \/ h.uncompressed_size = 0 \/ h.crc = 0

\* line 220 without the test of compressed_size
HeaderOversizedOneField(h) == h.uncompressed_size > LZLIB4_MAX_BLOCK_SIZE

\* line 220 (and line 372 of decompress_partial)
HeaderOversized(h) ==
    \/ h.compressed_size > LZ4_COMPRESSBOUND(LZLIB4_MAX_BLOCK_SIZE)
    \/ h.uncompressed_size > LZLIB4_MAX_BLOCK_SIZE

\* line 225 letting through a block one byte larger than the space
OutTooSmallOffByOne(h, avail_out) == h.uncompressed_size > avail_out + 1

\* line 225
OutTooSmall(h, avail_out) == h.uncompressed_size > avail_out

\* free(p) of lines 238, 255 and of close: a pointer that was already freed
\* and not cleared is freed a second time
Free(hp, p) ==
    IF hp[p] = "null" THEN hp
    ELSE IF hp[p] = "live" THEN [hp EXCEPT ![p] = "dangling"]
    ELSE [hp EXCEPT !.twice = @ \cup {p}]

\* lines 235-248 (p = decompress_in_buffer) and 252-265 (decompress_out_buffer):
\* free the old buffer, malloc the new one; ok = FALSE when malloc returns NULL
Regrow(hp, p, fails) ==
    [Free(hp, p) EXCEPT ![p] = IF fails THEN "null" ELSE "live"]

\* lines 235-265 once the header is accepted: both buffers grown to the
\* declared sizes; the block becomes the partial block
GrowBuffers(d, header) ==
    LET s == d.s
        grow_in == header.compressed_size > s.decompress_in_size_real
        grow_out == header.uncompressed_size > s.decompress_out_size_real
        fail_in == grow_in /\ d.mfail = "in"
        fail_out == grow_out /\ d.mfail = "out"
        hp1 == IF grow_in THEN Regrow(d.heap, "decompress_in_buffer", fail_in) ELSE d.heap
        s1 == IF grow_in /\ ~fail_in
              THEN [s EXCEPT !.decompress_in_size_real = header.compressed_size,
                             !.decompress_in_buffer = <<>>]
              ELSE IF grow_in THEN [s EXCEPT !.decompress_in_buffer = <<>>] ELSE s
    IN  IF fail_in
        THEN [d EXCEPT !.s = s1, !.heap = hp1, !.mfail = "none",
                       !.rc = LZLIB4_RC_BUFFER_ERROR, !.site = "alloc_in"]
        ELSE IF fail_out
        THEN [d EXCEPT !.s = [s1 EXCEPT !.decompress_out_buffer = <<>>],
                       !.heap = Regrow(hp1, "decompress_out_buffer", TRUE),
                       !.mfail = "none",
                       !.rc = LZLIB4_RC_BUFFER_ERROR, !.site = "alloc_out"]
        ELSE [d EXCEPT !.s = [s1 EXCEPT !.decompress_out_size_real =
                                            IF grow_out THEN header.uncompressed_size ELSE @,
                                        !.decompress_out_buffer = IF grow_out THEN <<>> ELSE @,
                                        !.decompress_in_size = header.compressed_size,
                                        !.decompress_out_size = header.uncompressed_size,
                                        !.partial_block = TRUE],
                       !.heap = IF grow_out THEN Regrow(hp1, "decompress_out_buffer", FALSE) ELSE hp1,
                       !.mem = Drop(@, HeaderSize),
                       !.avail_in = SubSize(@, HeaderSize),
                       !.given = IF @ >= HeaderSize THEN @ - HeaderSize ELSE 0,
                       !.consumed = @ + HeaderSize]

\* lines 213-228: the checks a header passes before it is used
CheckHeader(d, header) ==
    IF HeaderZero(header)
    THEN [d EXCEPT !.rc = LZLIB4_RC_BLOCK_DAMAGED, !.site = "hdr_zero"]
    ELSE IF HeaderOversized(header)
    THEN [d EXCEPT !.rc = LZLIB4_RC_BLOCK_DAMAGED, !.site = "hdr_bound"]
    ELSE IF OutTooSmall(header, d.avail_out)
    THEN [d EXCEPT !.rc = LZLIB4_RC_BUFFER_ERROR, !.site = "out_small"]
    ELSE GrowBuffers(d, header)

\* lines 209-275: a new block starts: header read, checked, buffers grown
ReadHeader(d) ==
    CheckHeader([d EXCEPT !.header = DecodeHeader(MemRead(d.mem, HeaderSize)),
                          !.header_read = TRUE,
                          !.ub = IF d.given < HeaderSize THEN @ \cup {"overread"} ELSE @],
                DecodeHeader(MemRead(d.mem, HeaderSize)))

\* line 324: crc != header.crc.  The local 'header' holds the block's header
\* only if it was read in this call; otherwise it is uninitialized, and
\* whether its crc field equals the computed value is left to chance.
CrcDiffers(d, crc) == IF d.header_read THEN crc # d.header.crc ELSE ~d.lucky

UninitRead(d) == IF d.check_crc /\ ~d.header_read THEN {"uninit"} ELSE {}

\* lines 316-338 with r the codec's result: length and checksum checks, then
\* the copy to next_out
DeliverBlock(d, r) ==
    LET s == d.s
        decompressed == IF r.ret < 0 THEN SizeMod + r.ret ELSE r.ret
        s1 == IF r.ret < 0 THEN s
              ELSE [s EXCEPT !.strm_lz4_decode = Append(@, r.bytes),
                             !.decompress_out_buffer = r.bytes]
        ub1 == IF d.heap["decompress_out_buffer"] # "live" THEN d.ub \cup {"bad_buffer"} ELSE d.ub
    IN  IF decompressed # s.decompress_out_size
        THEN [d EXCEPT !.s = s1, !.ub = ub1, !.codec_calls = @ + 1,
                       !.rc = LZLIB4_RC_BLOCK_SIZE_ERROR,
                       !.site = IF r.ret < 0 THEN "codec" ELSE "size"]
        ELSE IF d.check_crc /\ CrcDiffers(d, crc32(r.bytes))
        THEN [d EXCEPT !.s = s1, !.ub = ub1 \cup UninitRead(d), !.codec_calls = @ + 1,
                       !.rc = LZLIB4_RC_BLOCK_DAMAGED, !.site = "crc"]
        ELSE [d EXCEPT !.s = [s1 EXCEPT !.decompress_in_index = 0,
                                        !.decompress_in_buffer = <<>>,
                                        !.partial_block = FALSE],
                       !.codec_calls = @ + 1,
                       !.out = @ \o r.bytes,
                       !.blocks = Append(@, r.bytes),
                       !.ub = (IF decompressed > d.space THEN ub1 \cup {"overrun"} ELSE ub1)
                              \cup UninitRead(d),
                       !.space = IF decompressed > @ THEN 0 ELSE @ - decompressed,
                       !.avail_out = SubSize(@, decompressed)]

\* lines 306-338: the block is complete: decode, check, copy to next_out
DecodeBlock(d) ==
    DeliverBlock(d, LZ4_decompress_safe_continue(d.s.strm_lz4_decode,
                        Take(d.s.decompress_in_buffer, d.s.decompress_in_index),
                        d.s.decompress_out_size))

\* lines 289-293: to_read bytes move from next_in to the block buffer
CopyIn(d, to_read) ==
    [d EXCEPT !.s.decompress_in_buffer = @ \o MemRead(d.mem, to_read),
              !.s.decompress_in_index = @ + to_read,
              !.ub = (IF to_read > d.given THEN @ \cup {"overread"} ELSE @)
                     \cup (IF to_read > 0 /\ d.heap["decompress_in_buffer"] # "live"
                           THEN {"bad_buffer"} ELSE {}),
              !.mem = Drop(@, to_read),
              !.avail_in = SubSize(@, to_read),
              !.given = IF @ >= to_read THEN @ - to_read ELSE 0,
              !.consumed = @ + to_read]

\* lines 295-338 after the copy: index check, then the decode of a full block
AfterCopy(d, to_decompress) ==
    IF d.s.decompress_in_index > d.s.decompress_in_size
    THEN [d EXCEPT !.rc = LZLIB4_RC_BUFFER_ERROR, !.site = "index"]
    ELSE IF to_decompress \/ d.s.decompress_in_index = d.s.decompress_in_size
    THEN DecodeBlock(d)
    ELSE d

\* a fill that takes all the input offered, whatever room the block has left
FillBlockWholeInput(d) ==
    LET space_left == SubSize(d.s.decompress_in_size, d.s.decompress_in_index)
        to_read == IF space_left # 0 THEN d.avail_in ELSE 0
    IN  IF space_left # 0 /\ to_read = 0 THEN d
        ELSE AfterCopy(CopyIn(d, to_read), space_left = 0)

\* lines 277-304: move input bytes into the block buffer
FillBlock(d) ==
    LET space_left == SubSize(d.s.decompress_in_size, d.s.decompress_in_index)
        to_read == IF space_left # 0 THEN Min(space_left, d.avail_in) ELSE 0
    IN  IF space_left # 0 /\ to_read = 0 THEN d
        ELSE AfterCopy(CopyIn(d, to_read), space_left = 0)

\* lines 340-343
BreakIfFull(d) ==
    IF d.rc = "run" /\ d.avail_out = 0
    THEN [d EXCEPT !.rc = LZLIB4_RC_OK, !.site = "out_full"]
    ELSE d

\* lines 277-343 unless the header was refused
FillUnlessReturned(d) == IF d.rc # "run" THEN d ELSE BreakIfFull(FillBlock(d))

\* lines 204-344: one iteration of the while loop
DecompressIter(d) ==
    FillUnlessReturned(IF d.s.partial_block THEN d ELSE ReadHeader(d))

RECURSIVE DecompressLoop(_)
DecompressLoop(d) ==
    IF d.rc # "run" THEN d
    ELSE IF d.iters >= MaxIters THEN Hang(d)
    ELSE IF d.avail_in # 0 THEN DecompressLoop(Tick(DecompressIter(d)))
    ELSE [d EXCEPT !.rc = LZLIB4_RC_OK, !.site = "end"]

\* lzlib4::decompress(check_crc).  mem: the bytes at next_in (the avail_in
\* bytes the caller supplied, followed by what lies behind them in memory);
\* lucky: the uninitialized local 'header' happens to hold the right crc;
\* mfail: which malloc of this call returns NULL.
decompress(s, hp, mem, avail_in, avail_out, check_crc, lucky, mfail) ==
    DecompressLoop([s |-> s, heap |-> hp, mem |-> mem, avail_in |-> avail_in,
                    given |-> avail_in, avail_out |-> avail_out, space |-> avail_out,
                    out |-> <<>>, blocks |-> <<>>, header |-> NoHeader,
                    header_read |-> FALSE, lucky |-> lucky,
                    check_crc |-> check_crc, mfail |-> mfail, consumed |-> 0,
                    codec_calls |-> 0, iters |-> 0, ub |-> {}, rc |-> "run", site |-> ""])

\* ------------------------------------------------------ decompress_partial
\* line 366: the staging buffer holds nothing more to serve
StagingExhausted(s) == SubSize(s.decompress_tmp_size, s.decompress_tmp_index) = 0

\* memcpy into a buffer from its start: the new bytes, then what was there
Overwrite(buf, bytes) == bytes \o Drop(buf, Len(bytes))

\* lines 401-414 with r the result of the inner decompress call, whose
\* output cursor pointed at the staging buffer
AfterInner(p, header, r) ==
    LET p1 == [p EXCEPT !.s = [r.s EXCEPT !.decompress_tmp_buffer = Overwrite(@, r.out)],
                        !.heap = r.heap, !.mem = r.mem, !.avail_in = r.avail_in,
                        !.given = r.given, !.consumed = @ + r.consumed,
                        !.fetched = @ + 1, !.blocks = @ \o r.blocks,
                        !.inner_iters = @ + r.iters,
                        !.mfail = "none",
                        !.ub = @ \cup r.ub \cup
                               (IF Len(r.out) > 0 /\ r.heap["decompress_tmp_buffer"] # "live"
                                THEN {"bad_buffer"} ELSE {})]
    IN  IF r.rc # LZLIB4_RC_OK
        THEN [p1 EXCEPT !.rc = r.rc, !.site = r.site]
        ELSE [p1 EXCEPT !.s.decompress_tmp_size = header.uncompressed_size,
                        !.s.decompress_tmp_index = 0]

\* lines 376-399: the staging buffer grown by realloc, then decompress with
\* avail_out = the declared size
GrowStaging(p, header) ==
    LET grow == header.uncompressed_size > p.s.decompress_tmp_size_real
        fail == grow /\ p.mfail = "tmp"
        hp1 == IF grow /\ ~fail THEN [p.heap EXCEPT !["decompress_tmp_buffer"] = "live"] ELSE p.heap
        s1 == IF grow /\ ~fail
              THEN [p.s EXCEPT !.decompress_tmp_size_real = header.uncompressed_size] ELSE p.s
        ub1 == IF grow /\ p.heap["decompress_tmp_buffer"] = "dangling"
               THEN p.ub \cup {"bad_buffer"} ELSE p.ub
    IN  IF fail
        THEN [p EXCEPT !.ub = ub1, !.mfail = "none",
                       !.rc = LZLIB4_RC_BUFFER_ERROR, !.site = "alloc_tmp"]
        ELSE AfterInner([p EXCEPT !.ub = ub1], header,
                        decompress(s1, hp1, p.mem, p.avail_in, header.uncompressed_size,
                                   p.check_crc, p.lucky, p.mfail))

\* lines 368-374
CheckStagingHeader(p, header) ==
    IF HeaderOversized(header)
    THEN [p EXCEPT !.rc = LZLIB4_RC_BLOCK_SIZE_ERROR, !.site = "p_bound"]
    ELSE GrowStaging(p, header)

\* lines 366-415: fetch one block into the staging buffer through decompress
FetchBlock(p) ==
    CheckStagingHeader([p EXCEPT !.ub = IF p.given < HeaderSize THEN @ \cup {"overread"} ELSE @],
                       DecodeHeader(MemRead(p.mem, HeaderSize)))

\* lines 417-428: serve bytes of the staging buffer to the caller
ServeStaging(p) ==
    LET s == p.s
        to_read == Min(SubSize(s.decompress_tmp_size, s.decompress_tmp_index), p.avail_out)
        bytes == Drop(MemRead(s.decompress_tmp_buffer, s.decompress_tmp_index + to_read),
                      s.decompress_tmp_index)
    IN  IF StagingExhausted(s) /\ p.avail_in = 0
        THEN [p EXCEPT !.rc = LZLIB4_RC_OK, !.site = "no_data"]
        ELSE [p EXCEPT !.s.decompress_tmp_index = @ + to_read,
                       !.avail_out = @ - to_read,
                       !.out = @ \o bytes]

\* lines 417-428 unless the fetch returned
ServeUnlessReturned(p) == IF p.rc # "run" THEN p ELSE ServeStaging(p)

\* lines 364-429: one iteration of the while loop
PartialIter(p) ==
    ServeUnlessReturned(IF StagingExhausted(p.s) \/ p.reset THEN FetchBlock(p) ELSE p)

RECURSIVE PartialLoop(_)
PartialLoop(p) ==
    IF p.rc # "run" THEN p
    ELSE IF p.iters >= MaxIters THEN Hang(p)
    ELSE IF p.avail_out # 0 THEN PartialLoop(Tick(PartialIter(p)))
    ELSE [p EXCEPT !.rc = LZLIB4_RC_OK, !.site = "end"]

\* lzlib4::decompress_partial(reset, check_crc, seek_to); seek_to is not read
decompress_partial(s, hp, mem, avail_in, avail_out, reset, check_crc, lucky, mfail) ==
    PartialLoop([s |-> s, heap |-> hp, mem |-> mem, avail_in |-> avail_in,
                 given |-> avail_in, avail_out |-> avail_out, out |-> <<>>,
                 blocks |-> <<>>, reset |-> reset, check_crc |-> check_crc,
                 lucky |-> lucky, mfail |-> mfail, consumed |-> 0, fetched |-> 0,
                 iters |-> 0, inner_iters |-> 0, ub |-> {}, rc |-> "run", site |-> ""])

\* ------------------------------------------------------------------- close
\* lines 438-461: every non-null pointer is freed; none is cleared, and the
\* staging buffer is not among them
close(hp) ==
    [Free(Free(Free(Free(Free(Free(hp, "strm_lz4"), "strm_lz4_decode"),
        "compress_in_buffer"), "compress_out_buffer"),
        "decompress_in_buffer"), "decompress_out_buffer")
     EXCEPT !.closes = @ + 1]

\* ----------------------------------------------------------------- callers
\* output space that is enough for everything a session of the model emits
BigOut == 200

FlushModes == {LZLIB4_NO_FLUSH, LZLIB4_SYNC_FLUSH, LZLIB4_FINISH}
BlockModes == {LZLIB4_INPUT_NOSPLIT, LZLIB4_INPUT_SPLIT}

NoCall == [op |-> "none", rc |-> LZLIB4_RC_OK, site |-> "", avail_in |-> 0, avail_out |-> 0,
           flush_mode |-> 0, check_crc |-> FALSE, reset |-> FALSE, consumed |-> 0,
           out |-> <<>>, blocks |-> <<>>, ub |-> {}, codec_calls |-> 0, resets |-> 0,
           fetched |-> 0, header |-> NoHeader, prev_site |-> "", pos |-> 0, left |-> 0,
           iters |-> 0, inner_iters |-> 0,
           pre |-> NewHandle(1, LZLIB4_INPUT_SPLIT), preheap |-> NewHeap]

\* the compressed streams the decompression sessions read: what one
\* compress call with FINISH emits for some input, and the bytes it framed
Framed(block_size, data) == compress(NewHandle(block_size, LZLIB4_INPUT_SPLIT), data, LZLIB4_FINISH, BigOut)


\* the caller pushes inp with flush mode fm and avail_out = ao
CompressCall(inp, fm, ao) ==
    /\ phase = "compress" /\ heap.closes = 0 /\ calls < MaxCalls
    /\ LET r == compress(strm, inp, fm, ao)
       IN  /\ strm' = r.s
           /\ S' = S \o Take(inp, Len(inp) - r.avail_in)
           /\ pushes' = Append(pushes, [data |-> inp, flush_mode |-> fm, avail_out |-> ao, rc |-> r.rc])
           /\ cout' = cout \o r.out
           /\ call' = [NoCall EXCEPT !.op = "compress", !.rc = r.rc, !.site = r.site,
                                     !.pre = strm, !.preheap = heap, !.prev_site = call.site,
                                     !.avail_in = Len(inp), !.avail_out = ao,
                                     !.flush_mode = fm, !.consumed = Len(inp) - r.avail_in,
                                     !.out = r.out, !.blocks = r.blocks, !.left = r.avail_out, !.iters = r.iters,
                                     !.codec_calls = r.codec_calls, !.resets = r.resets]
    /\ calls' = calls + 1
    /\ UNCHANGED << heap, phase, seed, cin, dpos, dout >>

\* the compressed output so far is handed to a decompression session
StartDecompress ==
    /\ phase = "compress" /\ heap.closes = 0 /\ calls > 0
    /\ phase' = "decompress"
    /\ cin' = cout
    /\ UNCHANGED << strm, heap, seed, calls, S, pushes, cout, dpos, dout, call >>

\* one decompress call on the next n bytes of the stream, with beyond behind
\* them in memory
DecompressCall(n, ao, check_crc, beyond, lucky, mfail) ==
    /\ phase = "decompress" /\ heap.closes = 0
    /\ LET rest == Drop(cin, dpos)
           r == decompress(strm, heap, Take(rest, n) \o beyond, n, ao, check_crc, lucky, mfail)
       IN  /\ strm' = r.s
           /\ heap' = r.heap
           /\ dpos' = Min(dpos + r.consumed, Len(cin))
           /\ dout' = dout \o r.out
           /\ phase' = IF r.ub # {} THEN "undefined"
                       ELSE IF r.rc = LZLIB4_RC_OK \/ r.site = "out_small" THEN "decompress"
                       ELSE "failed"
           /\ call' = [NoCall EXCEPT !.op = "decompress", !.rc = r.rc, !.site = r.site,
                                     !.pre = strm, !.preheap = heap, !.prev_site = call.site,
                                     !.pos = dpos,
                                     !.avail_in = n, !.avail_out = ao, !.check_crc = check_crc,
                                     !.consumed = r.consumed, !.out = r.out,
                                     !.blocks = r.blocks, !.ub = r.ub,
                                     !.codec_calls = r.codec_calls, !.header = r.header,
                                     !.iters = r.iters]
    /\ UNCHANGED << seed, calls, S, pushes, cout, cin >>

\* one decompress_partial call with the next n bytes of the stream as input
\* and an output slice of ao bytes
PartialCall(n, ao, reset, check_crc, beyond, lucky, mfail) ==
    /\ phase = "decompress" /\ heap.closes = 0
    /\ LET rest == Drop(cin, dpos)
           r == decompress_partial(strm, heap, Take(rest, n) \o beyond, n, ao, reset,
                                   check_crc, lucky, mfail)
       IN  /\ strm' = r.s
           /\ heap' = r.heap
           /\ dpos' = Min(dpos + r.consumed, Len(cin))
           /\ dout' = dout \o r.out
           /\ phase' = IF r.ub # {} THEN "undefined"
                       ELSE IF r.rc = LZLIB4_RC_OK THEN "decompress"
                       ELSE "failed"
           /\ call' = [NoCall EXCEPT !.op = "partial", !.rc = r.rc, !.site = r.site,
                                     !.pre = strm, !.preheap = heap, !.prev_site = call.site,
                                     !.pos = dpos,
                                     !.avail_in = n, !.avail_out = ao, !.check_crc = check_crc,
                                     !.reset = reset, !.consumed = r.consumed, !.out = r.out,
                                     !.blocks = r.blocks, !.ub = r.ub, !.fetched = r.fetched,
                                     !.iters = r.iters, !.inner_iters = r.inner_iters]
    /\ UNCHANGED << seed, calls, S, pushes, cout, cin >>

\* the whole remaining stream in one call with ample output space
DecompressAll ==
    /\ dpos < Len(cin)
    /\ \E check_crc \in BOOLEAN :
          DecompressCall(Len(cin) - dpos, BigOut, check_crc, <<>>, FALSE, "none")

\* close(), explicit or from the destructor
Close ==
    /\ heap.closes < 2
    /\ heap' = close(heap)
    /\ UNCHANGED << strm, phase, seed, calls, S, pushes, cout, cin, dpos, dout, call >>

\* ------------------------------------------------- compression round trip
Init ==
    /\ \E bs \in 1..MaxBS, bm \in BlockModes : strm = NewHandle(bs, bm)
    /\ heap = NewHeap
    /\ phase = "compress"
    /\ seed \in 0..MaxByte
    /\ calls = 0
    /\ S = <<>>
    /\ pushes = <<>>
    /\ cout = <<>>
    /\ cin = <<>>
    /\ dpos = 0
    /\ dout = <<>>
    /\ call = NoCall

\* the next n bytes of the caller's data, pushed with ample output space
Push == \E n \in 0..MaxPush, fm \in FlushModes :
            CompressCall(DataBytes(seed, Len(S), n), fm, BigOut)

Next == Push \/ StartDecompress \/ DecompressAll

Spec == Init /\ [][Next]_vars

\* ------------------------------------------------ reading the wire format
\* the headers of a concatenation of framed blocks
RECURSIVE ParseBlocks(_)
ParseBlocks(q) ==
    IF Len(q) < HeaderSize THEN <<>>
    ELSE LET h == DecodeHeader(Take(q, HeaderSize))
         IN  << h >> \o ParseBlocks(Drop(q, HeaderSize + h.compressed_size))

RECURSIVE SumSizes(_)
SumSizes(hs) == IF hs = <<>> THEN 0 ELSE Head(hs).uncompressed_size + SumSizes(Tail(hs))

\* offsets in the pushed bytes at which an emitted block ends
BlockEnds(q) == LET hs == ParseBlocks(q) IN {SumSizes(Take(hs, k)) : k \in 1..Len(hs)}

\* bytes pushed by the first k calls
RECURSIVE PushedLen(_, _)
PushedLen(ps, k) == IF k = 0 THEN 0 ELSE Len(ps[k].data) + PushedLen(ps, k - 1)

RECURSIVE PushedBytes(_)
PushedBytes(ps) == IF ps = <<>> THEN <<>> ELSE Head(ps).data \o PushedBytes(Tail(ps))

AllPushesOk == \A i \in 1..Len(pushes) : pushes[i].rc = LZLIB4_RC_OK

\* --------------------------------------------------- decompression sessions
\* a fresh handle is about to read the stream arriving as cin; cout is the
\* stream as the compressor emitted it (one call, block size bs, n bytes of
\* source v, FINISH) and S the bytes of its blocks
ReadInit(bs, v, n, arriving) ==
    /\ strm = NewHandle(bs, LZLIB4_INPUT_SPLIT)
    /\ heap = NewHeap
    /\ phase = "decompress"
    /\ seed = v
    /\ calls = 0
    /\ S = Flatten(Framed(bs, DataBytes(v, 1, n)).blocks)
    /\ pushes = <<>>
    /\ cout = Framed(bs, DataBytes(v, 1, n)).out
    /\ cin = arriving
    /\ dpos = 0
    /\ dout = <<>>
    /\ call = NoCall

\* the stream arrives as it was emitted
InitD == \E bs \in 1..MaxBS, v \in 0..MaxByte, n \in 1..(2 * MaxBS) :
            ReadInit(bs, v, n, Framed(bs, DataBytes(v, 1, n)).out)

\* the stream is fed in chunks of one byte, of a header's size, or whole,
\* with ample output space; behind the chunk lies the rest of the stream or
\* nothing
Feed ==
    /\ dpos < Len(cin)
    /\ \E n \in {1, HeaderSize, Len(cin) - dpos}, check_crc \in BOOLEAN, lucky \in BOOLEAN :
          /\ n <= Len(cin) - dpos
          /\ \E beyond \in {<<>>, Drop(cin, dpos + n)} :
                DecompressCall(n, BigOut, check_crc, beyond, lucky, "none")

NextD == Feed

SpecD == InitD /\ [][NextD]_vars

\* the whole remaining stream is offered with little or ample output space
Drain ==
    /\ dpos < Len(cin)
    /\ \E ao \in (0..(MaxBS + 1)) \cup {BigOut}, check_crc \in BOOLEAN :
          DecompressCall(Len(cin) - dpos, ao, check_crc, <<>>, FALSE, "none")

NextO == Drain

SpecO == InitD /\ [][NextO]_vars

\* the header found at offset pos of the arriving stream
HeaderAt(pos) == DecodeHeader(MemRead(Drop(cin, pos), HeaderSize))

\* offsets of the arriving stream at which a block starts or the stream ends
RECURSIVE BlockStarts(_, _)
BlockStarts(q, base) ==
    IF Len(q) < HeaderSize THEN {base}
    ELSE {base} \cup BlockStarts(Drop(q, HeaderSize + DecodeHeader(Take(q, HeaderSize)).compressed_size),
                                 base + HeaderSize + DecodeHeader(Take(q, HeaderSize)).compressed_size)

\* the stream is whole in the input and read in output slices, as long as
\* something is left to read; behind the input lies nothing or old bytes
Slice ==
    /\ dpos < Len(cin) \/ ~StagingExhausted(strm)
    /\ \E ao \in 1..(MaxBS + 1), check_crc \in BOOLEAN, beyond \in {<<>>, Take(cin, HeaderSize)} :
          PartialCall(Len(cin) - dpos, ao, FALSE, check_crc, beyond, FALSE, "none")

NextP == Slice

SpecP == InitD /\ [][NextP]_vars

\* a handle is used, closed, and closed again by its destructor
NextL == Next \/ Close

SpecL == Init /\ [][NextL]_vars

\* output space that holds one block of any size of the model, not always two
SmallOut == 2 * HeaderSize + 1 + 2 * MaxBS

\* compression sessions whose output space may be short
InitS == Init /\ seed = 0

PushTight == \E n \in 0..MaxPush, fm \in {LZLIB4_NO_FLUSH, LZLIB4_FINISH}, ao \in {SmallOut, BigOut} :
                CompressCall(DataBytes(seed, Len(S), n), fm, ao)

NextS == PushTight

SpecS == InitS /\ [][NextS]_vars

\* the bytes of one framed block: what lines 165-180 write for block when
\* the codec state holds hist
FrameOf(hist, block, cap) ==
    EncodeHeader([compressed_size |-> Len(LZ4_compress_HC_continue(hist, block, cap)),
                  uncompressed_size |-> Len(block),
                  crc |-> crc32(block)])
        \o LZ4_compress_HC_continue(hist, block, cap)

\* the frames of consecutive blocks, each coded after the ones before it
RECURSIVE WireOf(_, _, _)
WireOf(hist, blocks, cap) ==
    IF blocks = <<>> THEN <<>>
    ELSE FrameOf(hist, Head(blocks), cap) \o WireOf(Append(hist, Head(blocks)), Tail(blocks), cap)

\* bytes taken by the frames with headers hs
RECURSIVE WireLen(_)
WireLen(hs) == IF hs = <<>> THEN 0
               ELSE HeaderSize + Head(hs).compressed_size + WireLen(Tail(hs))

\* the stream is offered whole or a header's size at a time, each call with
\* an output space of its own
Trickle ==
    /\ dpos < Len(cin)
    /\ \E n \in {HeaderSize, Len(cin) - dpos}, ao \in (0..MaxBS) \cup {BigOut} :
          /\ n <= Len(cin) - dpos
          /\ DecompressCall(n, ao, FALSE, <<>>, FALSE, "none")

NextV == Trickle

SpecV == InitD /\ [][NextV]_vars

\* a stream is read in slices and the handle is then closed
NextR == Slice \/ Close

SpecR == InitD /\ [][NextR]_vars

\* the pointers a handle owns
Pointers == {"strm_lz4", "strm_lz4_decode", "compress_in_buffer", "compress_out_buffer",
             "decompress_in_buffer", "decompress_out_buffer", "decompress_tmp_buffer"}

\* byte values written over one byte of the stream on its way
TamperVals == {0, 1, 5, 21, 255}

\* the stream arrives with one byte altered
InitT == \E bs \in 1..MaxBS, v \in 0..MaxByte, n \in 1..(MaxBS + 1) :
            \E pos \in 1..Len(Framed(bs, DataBytes(v, 1, n)).out), val \in TamperVals :
                /\ val # Framed(bs, DataBytes(v, 1, n)).out[pos]
                /\ ReadInit(bs, v, n, [Framed(bs, DataBytes(v, 1, n)).out EXCEPT ![pos] = val])

\* the stream is offered whole, or a header's size of it first
Offer ==
    /\ dpos < Len(cin)
    /\ \E n \in {HeaderSize, Len(cin) - dpos}, check_crc \in BOOLEAN, lucky \in BOOLEAN :
          /\ n <= Len(cin) - dpos
          /\ DecompressCall(n, BigOut, check_crc, <<>>, lucky, "none")

NextT == Offer

SpecT == InitT /\ [][NextT]_vars

\* where the arriving stream differs from the emitted one, the start of the
\* emitted block that holds this byte, and the end of that block
Altered == CHOOSE i \in 1..Len(cin) : cin[i] # cout[i]

AlteredBlock == CHOOSE b \in BlockStarts(cout, 0) :
                    /\ b < Altered
                    /\ \A c \in BlockStarts(cout, 0) : c < Altered => c <= b

AlteredBlockEnd == CHOOSE e \in BlockStarts(cout, 0) :
                       /\ e >= Altered
                       /\ \A c \in BlockStarts(cout, 0) : c >= Altered => e <= c

\* the reader asks for more after the whole stream was read and served: no
\* input is left; behind the input lies nothing or old bytes
SliceAtEnd ==
    /\ dpos = Len(cin) /\ StagingExhausted(strm)
    /\ \E ao \in 1..(MaxBS + 1), check_crc \in BOOLEAN, beyond \in {<<>>, Take(cin, HeaderSize)} :
          PartialCall(0, ao, FALSE, check_crc, beyond, FALSE, "none")

NextE == Slice \/ SliceAtEnd

SpecE == InitD /\ [][NextE]_vars

\* a valid stream read through decompress_partial while it is still arriving:
\* a call is offered a header and one byte more, or all that is left
Morsel ==
    /\ dpos < Len(cin)
    /\ \E n \in {HeaderSize + 1, Len(cin) - dpos}, ao \in 1..(MaxBS + 1), check_crc \in BOOLEAN :
          /\ n <= Len(cin) - dpos
          /\ PartialCall(n, ao, FALSE, check_crc, <<>>, FALSE, "none")

NextQ == Morsel

SpecQ == InitD /\ [][NextQ]_vars

\* -------------------------------------------------------- sessions at large
\* compression sessions, and handles that read a stream of MaxBS bytes with
\* one byte overwritten (intact when the byte written is the one emitted)
\* through decompress and decompress_partial in any mix, with output spaces
\* short or ample, allocations that may fail, and callers that carry on
\* after an error, up to MaxCalls times
InitA ==
    \/ InitS
    \/ \E bs \in 1..MaxBS :
          \E pos \in 1..Len(Framed(bs, DataBytes(0, 1, MaxBS)).out), val \in {0, 5} :
              ReadInit(bs, 0, MaxBS, [Framed(bs, DataBytes(0, 1, MaxBS)).out EXCEPT ![pos] = val])

\* the ways a call is made: the input offered (a header's size, one byte
\* more, or all that is left), the output space, and the allocation that
\* fails
DecompressWays(rest) ==
    { << HeaderSize, BigOut, "none" >>, << rest, BigOut, "none" >>,
      << rest, 1, "none" >>, << rest, BigOut, "out" >>, << rest, BigOut, "in" >> }

PartialWays(rest) ==
    { << rest, 1, FALSE, "none" >>, << rest, MaxBS, FALSE, "none" >>,
      << HeaderSize + 1, 1, FALSE, "none" >>, << rest, 1, TRUE, "none" >>,
      << rest, 1, FALSE, "tmp" >> }

AnyDecompress ==
    /\ dpos < Len(cin)
    /\ \E w \in DecompressWays(Len(cin) - dpos) :
          /\ w[1] <= Len(cin) - dpos
          /\ DecompressCall(w[1], w[2], TRUE, <<>>, FALSE, w[3])

AnyPartial ==
    /\ dpos < Len(cin)
    /\ \E w \in PartialWays(Len(cin) - dpos) :
          /\ w[1] <= Len(cin) - dpos
          /\ PartialCall(w[1], w[2], w[3], TRUE, <<>>, FALSE, w[4])

\* the caller goes on using the handle after a call returned an error
Retry ==
    /\ phase = "failed" /\ calls < MaxCalls
    /\ phase' = "decompress"
    /\ calls' = calls + 1
    /\ UNCHANGED << strm, heap, seed, S, pushes, cout, cin, dpos, dout, call >>

NextA == PushTight \/ AnyDecompress \/ AnyPartial \/ Retry

SpecA == InitA /\ [][NextA]_vars

\* ------------------------------------------------------------------ claims

\* C1: round trip.  After pushes that all succeed with ample output space,
\* the last of them with a flush mode other than NoFlush, one decompress
\* call on the concatenated output succeeds and returns the pushed bytes.
C1_RoundTrip ==
    ( /\ call.op = "decompress"
      /\ AllPushesOk
      /\ \A i \in 1..Len(pushes) : pushes[i].avail_out = BigOut
      /\ pushes[Len(pushes)].flush_mode # LZLIB4_NO_FLUSH )
    => (call.rc = LZLIB4_RC_OK /\ dout = PushedBytes(pushes))

\* C2: under NoSplit a compress call with avail_in larger than the block
\* size returns the block-size error and changes neither the cursors, the
\* fill index nor the codec state, whatever the flush mode and the pending
\* bytes.
C2_NoSplitEnforced ==
    ( /\ call.op = "compress"
      /\ call.pre.compress_block_mode = LZLIB4_INPUT_NOSPLIT
      /\ call.avail_in > call.pre.compress_in_size )
    => ( /\ call.rc = LZLIB4_RC_BLOCK_SIZE_ERROR
         /\ call.consumed = 0 /\ call.out = <<>> /\ call.codec_calls = 0
         /\ strm = call.pre )

C2_Witness ==
    /\ call.op = "compress" /\ call.site = "too_large"
    /\ call.flush_mode # LZLIB4_NO_FLUSH
    /\ strm.compress_in_index > 0

\* C3: under NoSplit, while every compress call succeeds, no emitted block
\* ends inside a push (all bytes of a push are in one block), everything
\* pushed is either emitted or pending, and a call whose push does not fit
\* the space left first emits the pending bytes as a block of their own.
C3_NoSplitKeepsPushes ==
    ( /\ call.op = "compress"
      /\ strm.compress_block_mode = LZLIB4_INPUT_NOSPLIT
      /\ AllPushesOk )
    => ( /\ \A i \in 1..Len(pushes) : \A e \in BlockEnds(cout) :
                ~(PushedLen(pushes, i - 1) < e /\ e < PushedLen(pushes, i))
         /\ SumSizes(ParseBlocks(cout)) + strm.compress_in_index
                = PushedLen(pushes, Len(pushes))
         /\ (call.avail_in > call.pre.compress_in_size - call.pre.compress_in_index
                => /\ call.blocks # <<>>
                   /\ call.blocks[1] = call.pre.compress_in_buffer) )

C3_Witness ==
    /\ strm.compress_block_mode = LZLIB4_INPUT_NOSPLIT
    /\ Len(pushes) = 2 /\ AllPushesOk
    /\ Len(pushes[1].data) > 0
    /\ Len(pushes[1].data) + Len(pushes[2].data) > strm.compress_in_size
    /\ Len(call.blocks) = 2

\* C4: under Split, one compress call on an empty stream that pushes
\* n > block_size bytes with a flush mode other than NoFlush and ample
\* output emits ceil(n / block_size) blocks, all but the last of block_size
\* bytes, their sizes summing to n.
C4_SplitBlockCount ==
    ( /\ calls = 1 /\ call.op = "compress"
      /\ strm.compress_block_mode = LZLIB4_INPUT_SPLIT
      /\ call.avail_in > strm.compress_in_size
      /\ call.flush_mode # LZLIB4_NO_FLUSH
      /\ call.avail_out = BigOut )
    => LET hs == ParseBlocks(cout)
           bs == strm.compress_in_size
       IN  /\ Len(hs) = (call.avail_in + bs - 1) \div bs
           /\ \A k \in 1..(Len(hs) - 1) : hs[k].uncompressed_size = bs
           /\ SumSizes(hs) = call.avail_in

\* C5: input resumability.  However a valid stream is cut into chunks fed to
\* successive decompress calls, with or without checksum verification,
\* every call succeeds, the output so far is a prefix of the stream's bytes,
\* and once the stream is consumed the output is all of them.
C5_InputResumable ==
    (call.op = "decompress")
    => ( /\ call.rc = LZLIB4_RC_OK
         /\ dout = Take(S, Len(dout))
         /\ (dpos = Len(cin) /\ ~strm.partial_block => dout = S) )

\* C6: output-space resumability.  A decompress call whose output space is
\* smaller than the next block leaves that block unconsumed: the cursor
\* stays at its header, partial_block and the fill index are as before,
\* nothing of it is written and nothing beyond the space given.  A call
\* that has room for the block at the cursor delivers exactly its bytes, so
\* that the output is always the bytes of the blocks before the cursor and,
\* at the end of the stream, all of them.
C6_OutputResumable ==
    (call.op = "decompress")
    => ( /\ call.ub = {}
         /\ Len(call.out) <= call.avail_out
         /\ dpos \in BlockStarts(cin, 0)
         /\ dout = Take(S, Len(dout))
         /\ Len(dout) = SumSizes(ParseBlocks(Take(cin, dpos)))
         /\ (dpos = Len(cin) => dout = S)
         /\ (call.site = "out_small"
                => /\ call.rc = LZLIB4_RC_BUFFER_ERROR
                   /\ HeaderAt(dpos).uncompressed_size > call.avail_out - Len(call.out)
                   /\ strm.partial_block = call.pre.partial_block
                   /\ strm.decompress_in_index = call.pre.decompress_in_index
                   /\ (call.blocks = <<>>
                         => strm = call.pre /\ heap = call.preheap
                            /\ dpos = call.pos /\ call.out = <<>>))
         /\ (call.site # "out_small" => call.rc = LZLIB4_RC_OK)
         /\ (HeaderAt(call.pos).uncompressed_size <= call.avail_out
                => /\ call.blocks # <<>>
                   /\ call.blocks[1] = SubSeq(S, Len(dout) - Len(call.out) + 1,
                                              Len(dout) - Len(call.out)
                                                + HeaderAt(call.pos).uncompressed_size)) )

C6_Witness ==
    /\ call.op = "decompress" /\ call.prev_site = "out_small"
    /\ call.rc = LZLIB4_RC_OK /\ call.blocks # <<>>
    /\ call.avail_out < BigOut
    /\ dpos = Len(cin) /\ dout = S /\ Len(ParseBlocks(cin)) > 1

\* C7: checksum detection.  A decompress call with checksum verification
\* that decodes a block whose payload was altered returns BlockDamaged, and
\* the output holds nothing of that block: only the blocks before it.
C7_ChecksumDetects ==
    ( /\ call.op = "decompress" /\ call.check_crc
      /\ Altered > AlteredBlock + HeaderSize
      /\ call.pos < AlteredBlockEnd /\ dpos >= AlteredBlockEnd )
    => ( /\ call.rc = LZLIB4_RC_BLOCK_DAMAGED
         /\ Len(dout) = SumSizes(ParseBlocks(Take(cout, AlteredBlock)))
         /\ dout = Take(S, Len(dout)) )

\* C8: declared-size-bound rejection.  A decompress call that finds, with
\* no block pending, a header whose uncompressed_size exceeds the maximum
\* block size or whose compressed_size exceeds the codec bound of it returns
\* BlockDamaged and leaves the handle, the buffers and the input cursor as
\* they were; a header refused for its sizes stays at the cursor; and the
\* buffers never have a capacity above these bounds.
C8_BoundRejected ==
    (call.op = "decompress")
    => ( /\ strm.decompress_in_size_real <= LZ4_COMPRESSBOUND(LZLIB4_MAX_BLOCK_SIZE)
         /\ strm.decompress_out_size_real <= LZLIB4_MAX_BLOCK_SIZE
         /\ ( ( /\ ~call.pre.partial_block /\ call.avail_in >= HeaderSize
                /\ \/ HeaderAt(call.pos).uncompressed_size > LZLIB4_MAX_BLOCK_SIZE
                   \/ HeaderAt(call.pos).compressed_size > LZ4_COMPRESSBOUND(LZLIB4_MAX_BLOCK_SIZE) )
               => ( /\ call.rc = LZLIB4_RC_BLOCK_DAMAGED
                    /\ strm = call.pre /\ heap = call.preheap
                    /\ call.consumed = 0 /\ dpos = call.pos /\ call.out = <<>> ) )
         /\ ( call.site = "hdr_bound"
               => ( /\ call.rc = LZLIB4_RC_BLOCK_DAMAGED
                    /\ ~strm.partial_block /\ strm.decompress_in_index = 0
                    /\ ("overread" \notin call.ub => call.header = HeaderAt(dpos)) ) ) )

C8_Witness ==
    /\ call.op = "decompress" /\ call.site = "hdr_bound" /\ call.ub = {}
    /\ call.header.compressed_size > LZ4_COMPRESSBOUND(LZLIB4_MAX_BLOCK_SIZE)
    /\ call.header.uncompressed_size <= LZLIB4_MAX_BLOCK_SIZE
    /\ call.blocks # <<>>

\* C9: chunked adapter equivalence.  Reading a valid stream that is whole in
\* the input through decompress_partial, in output slices of any sizes,
\* every call succeeds and returns the next bytes of the stream: as many as
\* the slice holds or as are left.
C9_AdapterEquivalent ==
    (call.op = "partial")
    => ( /\ call.rc = LZLIB4_RC_OK
         /\ dout = Take(S, Len(dout))
         /\ Len(call.out) = Min(call.avail_out, Len(S) - (Len(dout) - Len(call.out))) )

\* C10: idempotence of close.  After close has run twice on a handle (the
\* second time from the destructor), no buffer and no codec state has been
\* freed twice.
C10_CloseIdempotent == (heap.closes = 2) => (heap.twice = {})

\* C11: close releases everything.  After close has returned, no buffer and
\* no codec state of the handle is still allocated, the staging buffer of
\* decompress_partial included.
C11_CloseReleasesAll ==
    (heap.closes = 1) => (\A p \in Pointers : heap[p] # "live")

\* C13: Finish resets the codec.  A successful compress call with Finish
\* resets the codec state exactly once, leaving it without history; a
\* successful call with another flush mode performs no reset.
C13_FinishResets ==
    (call.op = "compress" /\ call.rc = LZLIB4_RC_OK)
    => ( /\ (call.flush_mode = LZLIB4_FINISH => call.resets = 1 /\ strm.strm_lz4 = <<>>)
         /\ (call.flush_mode # LZLIB4_FINISH => call.resets = 0) )

\* C14: flush completeness.  After a successful compress call with a flush
\* mode other than NoFlush, nothing is pending (fill index 0) and the blocks
\* emitted so far hold every byte consumed so far.
C14_FlushComplete ==
    (call.op = "compress" /\ call.rc = LZLIB4_RC_OK /\ call.flush_mode # LZLIB4_NO_FLUSH)
    => ( /\ strm.compress_in_index = 0
         /\ SumSizes(ParseBlocks(cout)) = Len(S) )

\* C15: emitted headers are never degenerate.  Every header in the output
\* of compress declares a compressed and an uncompressed size above zero.
C15_NoDegenerateHeader ==
    \A k \in 1..Len(ParseBlocks(cout)) :
        /\ ParseBlocks(cout)[k].compressed_size > 0
        /\ ParseBlocks(cout)[k].uncompressed_size > 0

\* C12: wire format.  What a compress call writes is, for each block it
\* emits in turn, a header with the codec's output length, the length of
\* the accumulated block and its CRC, followed by the codec's output and
\* nothing else; the output space shrinks by exactly these bytes, and the
\* whole output parses as such frames with nothing in between.
C12_WireFormat ==
    (call.op = "compress")
    => ( /\ call.out = WireOf(call.pre.strm_lz4, call.blocks, call.pre.compress_out_size)
         /\ call.left = call.avail_out - Len(call.out)
         /\ WireLen(ParseBlocks(cout)) = Len(cout)
         /\ \A k \in 1..Len(call.blocks) :
                LET h == ParseBlocks(call.out)[k]
                IN  /\ h.uncompressed_size = Len(call.blocks[k])
                    /\ h.crc = crc32(call.blocks[k])
         /\ strm.compress_in_index = Len(strm.compress_in_buffer) )

C12_Witness ==
    /\ call.op = "compress" /\ call.rc = LZLIB4_RC_OK
    /\ call.pre.compress_in_index > 0
    /\ Len(call.blocks) = 2
    /\ Len(call.blocks[1]) < call.pre.compress_in_size

\* C16: compress never overruns the output.  A compress call writes no
\* more than the output space it was given.  When it returns the buffer
\* error for a block, the output holds exactly the frames of the blocks
\* emitted before it, the refused frame would not have fitted what was
\* left, and the bytes consumed and not emitted are still pending in the
\* accumulation buffer with the fill index counting them.
C16_OutputNotOverrun ==
    (call.op = "compress")
    => ( /\ Len(call.out) <= call.avail_out
         /\ call.left >= 0
         /\ (call.site = "out_small"
               => ( /\ call.rc = LZLIB4_RC_BUFFER_ERROR
                    /\ call.out = WireOf(call.pre.strm_lz4, call.blocks, call.pre.compress_out_size)
                    /\ Len(FrameOf(call.pre.strm_lz4 \o call.blocks, strm.compress_in_buffer,
                                   call.pre.compress_out_size)) > call.left
                    /\ strm.compress_in_index = Len(strm.compress_in_buffer)
                    /\ Flatten(call.blocks) \o strm.compress_in_buffer
                         = call.pre.compress_in_buffer
                             \o Take(pushes[Len(pushes)].data, call.consumed) )) )

C16_Witness ==
    /\ call.op = "compress" /\ call.site = "out_small"
    /\ call.blocks # <<>>
    /\ strm.compress_in_index > 0

\* C17: decompress never overruns the output.  No decompress call writes
\* more bytes than the output space it was given; a call that completes a
\* block whose header was accepted earlier, with less space than the block
\* needs, returns the buffer error instead of writing.
C17_DecompressOutputBounded ==
    (call.op = "decompress")
    => ( /\ Len(call.out) <= call.avail_out
         /\ "overrun" \notin call.ub
         /\ ( ( /\ call.pre.partial_block
                /\ call.pre.decompress_out_size > call.avail_out
                /\ call.codec_calls > 0 )
               => call.rc = LZLIB4_RC_BUFFER_ERROR ) )

\* C18: decompress never overruns the input.  A decompress call reads and
\* consumes no more than the avail_in bytes it was given; a header is read
\* only from input that holds a whole header.
C18_InputBounded ==
    (call.op = "decompress")
    => ( /\ call.consumed <= call.avail_in
         /\ "overread" \notin call.ub )

\* C19: the checksum survives resumption.  A call with checksum
\* verification that completes a block of a valid stream whose header was
\* read in an earlier call compares the CRC with that header's field: it
\* reads no indeterminate value and does not report the block damaged.
C19_CrcSurvivesResume ==
    ( /\ call.op = "decompress" /\ call.check_crc
      /\ call.pre.partial_block
      /\ "overread" \notin call.ub )
    => ( /\ "uninit" \notin call.ub
         /\ call.rc # LZLIB4_RC_BLOCK_DAMAGED )

\* C20: codec decode failure has its own error.  decompress returns the
\* block-size error only when the codec succeeded with a decoded length
\* other than the declared one, never when the codec returned a negative
\* value.
C20_DecodeFailureDistinct ==
    (call.op = "decompress" /\ call.rc = LZLIB4_RC_BLOCK_SIZE_ERROR)
    => call.site = "size"

\* C21: fill index and capacity invariant.  After every call, successful or
\* not, each fill index is within its block size, each block size within
\* the recorded capacity of its buffer, no recorded capacity is smaller than
\* before the call, and the decompression fill index is 0 whenever no block
\* is pending.
C21_IndexWithinCapacity ==
    /\ strm.compress_in_index <= strm.compress_in_size
    /\ strm.decompress_in_index <= strm.decompress_in_size
    /\ strm.decompress_in_size <= strm.decompress_in_size_real
    /\ strm.decompress_out_size <= strm.decompress_out_size_real
    /\ strm.decompress_tmp_index <= strm.decompress_tmp_size
    /\ strm.decompress_tmp_size <= strm.decompress_tmp_size_real
    /\ (~strm.partial_block => strm.decompress_in_index = 0)
    /\ (call.op # "none"
          => /\ strm.decompress_in_size_real >= call.pre.decompress_in_size_real
             /\ strm.decompress_out_size_real >= call.pre.decompress_out_size_real
             /\ strm.decompress_tmp_size_real >= call.pre.decompress_tmp_size_real
             /\ strm.compress_in_size = call.pre.compress_in_size)

C21_Witness ==
    /\ call.op = "partial"
    /\ strm.partial_block
    /\ strm.decompress_in_index > 0
    /\ strm.decompress_in_index < strm.decompress_in_size
    /\ strm.decompress_in_size_real > call.pre.decompress_in_size_real
    /\ strm.decompress_tmp_size_real > 0

\* C22: after a call that returned the allocation failure, no recorded
\* capacity of the decompression-input, decompression-output or staging
\* buffer exceeds the buffer held: a buffer that is not held has capacity 0
C22_AllocFailureConsistent ==
    (call.rc = LZLIB4_RC_BUFFER_ERROR /\ call.site \in {"alloc_in", "alloc_out", "alloc_tmp"})
        => /\ (heap["decompress_in_buffer"] # "live" => strm.decompress_in_size_real = 0)
           /\ (heap["decompress_out_buffer"] # "live" => strm.decompress_out_size_real = 0)
           /\ (heap["decompress_tmp_buffer"] # "live" => strm.decompress_tmp_size_real = 0)

\* C23: a decompress_partial call that needs a new block and is offered the
\* block's header with only part of its payload delivers no byte and leaves
\* the staging size and read index as they were
C23_IncompleteBlockNotServed ==
    ( /\ call.op = "partial"
      /\ call.pos \in BlockStarts(cin, 0)
      /\ StagingExhausted(call.pre) /\ ~call.pre.partial_block
      /\ call.avail_out > 0
      /\ call.avail_in >= HeaderSize
      /\ call.avail_in < HeaderSize + HeaderAt(call.pos).compressed_size )
    => ( /\ call.out = <<>>
         /\ strm.decompress_tmp_size = call.pre.decompress_tmp_size
         /\ strm.decompress_tmp_index = call.pre.decompress_tmp_index )

\* C24: a decompress_partial call with output space, an exhausted staging
\* buffer and no input returns success without reading a header, without
\* changing the staging size or read index and without writing output
C24_EndOfDataQuiet ==
    ( /\ call.op = "partial"
      /\ call.avail_in = 0 /\ call.avail_out > 0
      /\ StagingExhausted(call.pre) )
    => ( /\ call.rc = LZLIB4_RC_OK
         /\ "overread" \notin call.ub
         /\ call.fetched = 0
         /\ call.out = <<>>
         /\ strm.decompress_tmp_size = call.pre.decompress_tmp_size
         /\ strm.decompress_tmp_index = call.pre.decompress_tmp_index )

\* C25: every call of compress, decompress and decompress_partial returns:
\* no loop runs on, and the iterations of a call are bounded by what it
\* consumed, compressed or decoded, and served, plus the one that returns
C25_CallsTerminate ==
    /\ call.rc # "hang"
    /\ (call.op = "compress" => call.iters <= call.consumed + call.codec_calls + 1)
    /\ (call.op = "decompress" => call.iters <= call.consumed + 1)
    /\ (call.op = "partial"
          => /\ call.iters <= call.consumed + Len(call.out) + 1
             /\ call.inner_iters <= call.consumed + call.fetched)

C25_Witness ==
    /\ call.op = "partial" /\ call.rc = LZLIB4_RC_OK /\ call.ub = {}
    /\ call.iters >= 2 /\ call.inner_iters >= 2
    /\ Len(call.out) >= 2
    /\ call.consumed = Len(cin)

\* C26: the codec compresses exactly the blocks that are written: in every
\* compress call, failed ones included, the codec is called once per block
\* emitted, and the blocks it has compressed since its last reset are the
\* ones it had before the call followed by the blocks the call emitted
C26_CodecHistoryMatches ==
    (call.op = "compress")
    => ( /\ call.codec_calls = Len(call.blocks)
         /\ strm.strm_lz4 = IF call.resets > 0 THEN <<>>
                            ELSE call.pre.strm_lz4 \o call.blocks )

====
